---- MODULE Spec2Model ----
(***************************************************************************)
(* A model of nuxt-open-fetch: the runtime dispatcher (createOpenFetch,    *)
(* fillPath, the hook bridge), the composable's key derivation             *)
(* (createAutoKey), the module's schema resolution (setup) and the schema  *)
(* cache (addCachedSchemaTemplate).                                        *)
(*                                                                         *)
(* Text is modelled as a sequence of one-character strings wherever the    *)
(* code looks inside it (substring search, prefix test, joining).          *)
(* Each component has its own specification over its own variable; the     *)
(* other variables stay at their initial value.                            *)
(***************************************************************************)
EXTENDS Integers, Sequences, FiniteSets, TLC

VARIABLES
    fill,         \* fillPath: the arguments and the result of one call
    disp,         \* createOpenFetch: one call of the client and what the transport got
    hook,         \* createHook: one run of the wrapper of a lifecycle event
    schemaFiles,  \* the contents of each client's local schema file
    cacheDir,     \* <buildDir>/cache/open-fetch: the set of <<file name, contents>>
    build,        \* the running calls of addCachedSchemaTemplate
    lastRun,      \* the call of addCachedSchemaTemplate that returned last
    setup,        \* the module's setup: its inputs, its loop position and `schemas`
    keys          \* two composable calls of one client and their derived keys

cacheVars == <<schemaFiles, cacheDir, build, lastRun>>

vars == <<fill, disp, hook, schemaFiles, cacheDir, build, lastRun, setup, keys>>

\* JavaScript's undefined / an absent property.
Undef == "undefined"

-----------------------------------------------------------------------------
(* Text helpers *)

\* s.startsWith(p)
StartsWith(s, p) == Len(s) >= Len(p) /\ SubSeq(s, 1, Len(p)) = p

\* the positions at which pat occurs in s
Occurrences(s, pat) ==
    {i \in 1..(Len(s) - Len(pat) + 1) : SubSeq(s, i, i + Len(pat) - 1) = pat}

Min(S) == CHOOSE x \in S : \A y \in S : x <= y

\* String.prototype.replace(pat, rep) with a string pattern: only the first
\* occurrence is replaced. (rep never holds a "$", see encodeURIComponent.)
ReplaceFirst(s, pat, rep) ==
    IF Occurrences(s, pat) = {} THEN s
    ELSE LET i == Min(Occurrences(s, pat))
         IN  SubSeq(s, 1, i - 1) \o rep \o SubSeq(s, i + Len(pat), Len(s))

-----------------------------------------------------------------------------
(* fillPath *)

\* The characters a path template or a parameter value is made of.
Unreserved == {"a", "b", "x", "1", "2"}

\* encodeURIComponent of one character: unreserved characters are kept,
\* every other character becomes its percent escape.
EncodeChar(c) ==
    IF c \in Unreserved THEN <<c>>
    ELSE IF c = "/" THEN <<"%", "2", "F">>
    ELSE IF c = "{" THEN <<"%", "7", "B">>
    ELSE IF c = "}" THEN <<"%", "7", "D">>
    ELSE <<"%", "2", "0">>

RECURSIVE encodeURIComponent(_)
encodeURIComponent(s) ==
    IF s = <<>> THEN <<>>
    ELSE EncodeChar(Head(s)) \o encodeURIComponent(Tail(s))

\* `{${k}}`
Placeholder(k) == <<"{">> \o k \o <<"}">>

\* for (const [k, v] of Object.entries(params)) path = path.replace(...)
\* params is the list of entries in Object.entries order.
RECURSIVE fillPath(_, _)
fillPath(path, params) ==
    IF params = <<>> THEN path
    ELSE fillPath(ReplaceFirst(path, Placeholder(Head(params)[1]),
                               encodeURIComponent(Head(params)[2])),
                  Tail(params))

\* Inputs: templates are up to MaxPieces pieces, parameter maps have up to
\* two entries.
MaxPieces == 3

Pieces == {<<"/">>, <<"x">>, <<"{", "a", "}">>, <<"{", "b", "}">>}

RECURSIVE Templates(_)
Templates(n) ==
    IF n = 0 THEN {<<>>}
    ELSE LET T == Templates(n - 1)
         IN  T \cup {t \o p : t \in T, p \in Pieces}

ParamNames == {<<"a">>, <<"b">>}
ParamValues == {<<"1">>, <<"a", "/", "2">>, <<"{", "b", "}">>}

ParamMaps ==
    {<<>>}
    \cup {<<<<k, v>>>> : k \in ParamNames, v \in ParamValues}
    \cup {<<<<k1, v1>>, <<k2, v2>>>> :
            <<k1, k2>> \in {<<<<"a">>, <<"b">>>>, <<<<"b">>, <<"a">>>>},
            <<v1, v2>> \in ParamValues \X ParamValues}

FillIdle == [st |-> "idle"]

\* one call of fillPath(url, opts.path)
FillPathCall ==
    /\ fill.st = "idle"
    /\ \E t \in Templates(MaxPieces), p \in ParamMaps :
          fill' = [st |-> "done", path |-> t, params |-> p, url |-> fillPath(t, p)]
    /\ UNCHANGED <<disp, hook, cacheVars, setup, keys>>

MapNames(p) == {p[i][1] : i \in 1..Len(p)}

\* C3: after fillPath no {name} placeholder of a name in the map remains, and
\* every placeholder of a name not in the map is left as it was.
NoResolvedPlaceholderLeft ==
    fill.st = "done" =>
        /\ \A k \in MapNames(fill.params) : Occurrences(fill.url, Placeholder(k)) = {}
        /\ \A k \in ParamNames \ MapNames(fill.params) :
              Cardinality(Occurrences(fill.url, Placeholder(k)))
                = Cardinality(Occurrences(fill.path, Placeholder(k)))

-----------------------------------------------------------------------------
(* createOpenFetch: the dispatcher *)

\* A property of an options object is absent, present with the value
\* undefined, or present with a value: k is "absent", "undef" or "val".
Absent(v) == v.k = "absent"

\* { ...a, ...b } for one property: b's own property wins, also when its
\* value is undefined.
Spread(a, b) == IF Absent(b) THEN a ELSE b

\* the lifecycle hooks of ofetch
HookKinds == {"onRequest", "onRequestError", "onResponse", "onResponseError"}

\* getOpenFetchHooks: no wrappers without a hook bus, else one per kind
getOpenFetchHooks(hooks) == IF hooks THEN HookKinds ELSE {}

\* JavaScript truthiness of a body value
FalsyBodies == {"0", "''", "false"}
BodyTruthy(b) == b.k = "val" /\ b.v \notin FalsyBodies

\* if (opts.body && opts.bodySerializer) opts.body = opts.bodySerializer(opts.body)
SerializesBody(body, ser) == BodyTruthy(body) /\ ser.k = "val"
SerializedBody(body, ser) ==
    IF SerializesBody(body, ser) THEN [body EXCEPT !.ser = ser.v] ELSE body

\* Header names are case-insensitive: Headers keeps them in lower case.
Lower(n) == IF n = "Accept" THEN "accept" ELSE IF n = "X-A" THEN "x-a" ELSE n

\* Headers.prototype.set on a list of <<lower-case name, value>> pairs
HeadersSet(h, name, value) ==
    IF \E i \in 1..Len(h) : h[i][1] = Lower(name)
    THEN [i \in 1..Len(h) |->
            IF h[i][1] = Lower(name) THEN <<Lower(name), value>> ELSE h[i]]
    ELSE Append(h, <<Lower(name), value>>)

\* Headers.prototype.append: a repeated name has its values joined by ", "
HeadersAppend(h, name, value) ==
    IF \E i \in 1..Len(h) : h[i][1] = Lower(name)
    THEN [i \in 1..Len(h) |->
            IF h[i][1] = Lower(name)
            THEN <<Lower(name), h[i][2] \o <<", ">> \o value>> ELSE h[i]]
    ELSE Append(h, <<Lower(name), value>>)

\* new Headers(init): init is undefined or a list of <<name, value>> entries
RECURSIVE HeadersFrom(_, _)
HeadersFrom(h, entries) ==
    IF entries = <<>> THEN h
    ELSE HeadersFrom(HeadersAppend(h, Head(entries)[1], Head(entries)[2]),
                     Tail(entries))

NewHeaders(init) == IF init.k = "val" THEN HeadersFrom(<<>>, init.h) ELSE <<>>

\* Array.prototype.join(', ')
RECURSIVE Join(_)
Join(l) ==
    IF l = <<>> THEN <<>>
    ELSE IF Len(l) = 1 THEN <<l[1]>>
    ELSE <<l[1], ", ">> \o Join(Tail(l))

\* if (opts.accept): a media type is a non-empty string, an array is truthy
AcceptTruthy(a) == a.k \in {"single", "list"}

\* A variant that drops repeated media types before joining.
RECURSIVE Dedup(_)
Dedup(l) ==
    IF l = <<>> THEN <<>>
    ELSE LET r == Dedup(SubSeq(l, 1, Len(l) - 1))
         IN  IF \E i \in 1..Len(r) : r[i] = l[Len(l)] THEN r ELSE Append(r, l[Len(l)])

AcceptHeaderValueDedup(a) == IF a.k = "list" THEN Join(Dedup(a.l)) ELSE <<a.l[1]>>

\* Array.isArray(opts.accept) ? opts.accept.join(', ') : opts.accept
AcceptHeaderValue(a) == IF a.k = "list" THEN Join(a.l) ELSE <<a.l[1]>>

\* A selection that looks at the URL only.
getFetchIgnoresBaseURL(url, baseURL, isServer, localFetch) ==
    IF isServer /\ localFetch /\ url # <<>> /\ url[1] = "/" THEN "local" ELSE "global"

\* getFetch
getFetch(url, baseURL, isServer, localFetch) ==
    IF isServer /\ localFetch
    THEN IF /\ url # <<>> /\ url[1] = "/"
            /\ (baseURL.k # "val" \/ baseURL.s = <<>> \/ baseURL.s[1] = "/")
         THEN "local" ELSE "global"
    ELSE "global"

\* The options object; every property may be absent.
NoBody == [k |-> "absent", v |-> "", ser |-> "none"]
NoSer == [k |-> "absent", v |-> ""]
NoHeaders == [k |-> "absent", h |-> <<>>]
NoAccept == [k |-> "absent", l |-> <<>>]
NoBaseURL == [k |-> "absent", s |-> <<>>]
NoPath == [k |-> "absent", p |-> <<>>]
NoHook == [k |-> "absent", n |-> 0]

\* The factory's `options` is an object, or a function of the call's options;
\* of the functions there are, one that returns its argument and one that
\* returns the same defaults object every time.
\* lines 126-128: typeof options === 'function' ? options(baseOpts)
\*                                               : { ...options, ...baseOpts }
BaseOpts(factory, callOpts) ==
    IF factory.form = "object"
    THEN [f \in DOMAIN callOpts |-> Spread(factory.options[f], callOpts[f])]
    ELSE IF factory.form = "argument" THEN callOpts
    ELSE factory.options

\* the object baseOpts then refers to: a spread makes a fresh one, a function
\* returns the object it returns
BaseOptsObject(factory) ==
    IF factory.form = "object" THEN "fresh"
    ELSE IF factory.form = "argument" THEN "callOpts"
    ELSE "options"

\* A dispatcher that writes into baseOpts instead of copying it.
OptsObjectAliased(baseOptsObject) == baseOptsObject

\* line 138: const opts = { ...baseOpts, ...getOpenFetchHooks(...) } is a
\* fresh object; it is the one every later assignment and delete acts on
OptsObject(baseOptsObject) == "fresh"

\* the transport options the dispatcher builds from baseOpts (lines 138-161)
TransportOptions(baseOpts, hooks) ==
    LET body == SerializedBody(baseOpts.body, baseOpts.bodySerializer)
        \* if (opts.header) { opts.headers = opts.header; delete opts.header }
        init == IF baseOpts.header.k = "val" THEN baseOpts.header ELSE baseOpts.headers
        hdrs == NewHeaders(init)
    IN  [body |-> body,
         bodySerializer |-> baseOpts.bodySerializer,
         header |-> IF baseOpts.header.k = "val" THEN NoHeaders ELSE baseOpts.header,
         headers |-> IF AcceptTruthy(baseOpts.accept)
                     THEN HeadersSet(hdrs, "Accept", AcceptHeaderValue(baseOpts.accept))
                     ELSE hdrs,
         accept |-> IF AcceptTruthy(baseOpts.accept) THEN NoAccept ELSE baseOpts.accept,
         baseURL |-> baseOpts.baseURL,
         path |-> baseOpts.path,
         onResponse |-> baseOpts.onResponse,
         wrapped |-> getOpenFetchHooks(hooks)]

\* Inputs of a call
MaxAccept == 2
MediaTypes == {"json", "v2"}

RECURSIVE Lists(_, _)
Lists(S, n) ==
    IF n = 0 THEN {<<>>}
    ELSE LET L == Lists(S, n - 1)
         IN  L \cup {Append(l, x) : l \in L, x \in S}

Bodies == {NoBody} \cup {[k |-> "val", v |-> b, ser |-> "none"] : b \in FalsyBodies \cup {"obj"}}
Serializers == {NoSer, [k |-> "val", v |-> "toFormData"]}
HeaderShorthands == {NoHeaders, [k |-> "val", h |-> <<<<"accept", <<"xml">>>>>>]}
HeaderInits == {NoHeaders,
                [k |-> "val", h |-> <<<<"X-A", <<"1">>>>, <<"Accept", <<"xml">>>>>>]}
Accepts == {NoAccept}
           \cup {[k |-> "single", l |-> <<m>>] : m \in MediaTypes}
           \cup {[k |-> "list", l |-> l] : l \in Lists(MediaTypes, MaxAccept)}
BaseURLs == {NoBaseURL, [k |-> "undef", s |-> <<>>], [k |-> "val", s |-> <<>>],
             [k |-> "val", s |-> <<"/", "p">>], [k |-> "val", s |-> <<"h", ":">>]}
Urls == {<<"/", "x", "/", "{", "a", "}">>, <<"h", ":", "/", "x">>}
Paths == {NoPath, [k |-> "val", p |-> <<<<<<"a">>, <<"1">>>>>>]}
LocalHooks == {NoHook, [k |-> "val", n |-> 1]}

CallOptions ==
    [body : Bodies, bodySerializer : Serializers, header : HeaderShorthands,
     headers : HeaderInits, accept : Accepts, baseURL : BaseURLs, path : Paths,
     onResponse : LocalHooks]

EmptyOptions ==
    [body |-> NoBody, bodySerializer |-> NoSer, header |-> NoHeaders,
     headers |-> NoHeaders, accept |-> NoAccept, baseURL |-> NoBaseURL,
     path |-> NoPath, onResponse |-> NoHook]

\* the factory's options: none, or the client's configured baseURL and headers
FactoryOptions ==
    {EmptyOptions,
     [EmptyOptions EXCEPT !.baseURL = [k |-> "val", s |-> <<"/", "b">>],
                          !.headers = [k |-> "val", h |-> <<<<"accept", <<"html">>>>>>]]}

\* createOpenFetch(options, ...): options as an object, or as a function
Factories ==
    {[form |-> "object", options |-> o] : o \in FactoryOptions}
    \cup {[form |-> "argument", options |-> EmptyOptions]}
    \cup {[form |-> "defaults", options |-> o] : o \in FactoryOptions \ {EmptyOptions}}

\* the calls made on one client, one after the other
MaxCalls == 2

\* the calls of a client that is called again with the options object of
\* its first call
RepeatedCallOptions ==
    {c \in CallOptions :
        /\ c.body.v \in {"", "obj"} /\ c.baseURL = NoBaseURL /\ c.path = NoPath
        /\ c.accept.l \in {<<>>, <<"json">>, <<"v2", "json">>}}

DispIdle == [st |-> "idle"]

\* what the assignments and deletes of lines 144-161 leave in the object they
\* act on, as an options object
Written(opts) ==
    [body |-> opts.body, bodySerializer |-> opts.bodySerializer,
     header |-> opts.header, headers |-> [k |-> "val", h |-> opts.headers],
     accept |-> opts.accept, baseURL |-> opts.baseURL, path |-> opts.path,
     onResponse |-> IF "onResponse" \in opts.wrapped
                    THEN [k |-> "wrapper", n |-> 0] ELSE opts.onResponse]

\* the object `which` ("options" or "callOpts") after the call: as before,
\* unless it is the object the call wrote to
ObjectAfter(which, before, factory, opts) ==
    IF OptsObject(BaseOptsObject(factory)) = which THEN Written(opts) ELSE before

\* one call client(url, callOpts) (lines 125-166) and what it leaves behind
Call(n, created, passed, factory, callOpts, url, localFetch, hooks, isServer) ==
    LET baseOpts == BaseOpts(factory, callOpts)
        opts == TransportOptions(baseOpts, hooks)
    IN  [st |-> "sent", n |-> n, created |-> created, passed |-> passed,
         factory |-> factory, options |-> factory.options, callOpts |-> callOpts,
         url |-> url, localFetch |-> localFetch, hooks |-> hooks, isServer |-> isServer,
         serializerCalls |->
             IF SerializesBody(baseOpts.body, baseOpts.bodySerializer) THEN 1 ELSE 0,
         transport |-> getFetch(url, opts.baseURL, isServer, localFetch),
         request |-> fillPath(url, IF opts.path.k = "val" THEN opts.path.p ELSE <<>>),
         opts |-> opts,
         optionsAfter |-> ObjectAfter("options", factory.options, factory, opts),
         callOptsAfter |-> ObjectAfter("callOpts", callOpts, factory, opts)]

\* the first call of the client returned by createOpenFetch(options,
\* localFetch, hookIdentifier, hooks), on the server or in the browser;
\* `created` and `passed` keep the two objects as they were handed over
Dispatch(calls, flags) ==
    /\ disp.st = "idle"
    /\ \E factory \in Factories, callOpts \in calls, url \in Urls,
          localFetch \in flags, hooks \in flags, isServer \in flags :
          disp' = Call(1, factory.options, callOpts, factory, callOpts, url,
                       localFetch, hooks, isServer)
    /\ UNCHANGED <<fill, hook, cacheVars, setup, keys>>

\* the caller calls the same client again and passes the same options
\* object; the factory's object and the caller's are as the call before
\* left them
DispatchAgain ==
    /\ disp.st = "sent" /\ disp.n < MaxCalls
    /\ \E url \in Urls :
          disp' = Call(disp.n + 1, disp.created, disp.passed,
                       [disp.factory EXCEPT !.options = disp.optionsAfter],
                       disp.callOptsAfter, url,
                       disp.localFetch, disp.hooks, disp.isServer)
    /\ UNCHANGED <<fill, hook, cacheVars, setup, keys>>

-----------------------------------------------------------------------------
(* createHook: the wrapper the transport calls for one lifecycle event *)

\* Handlers registered on one channel of the hook bus, or given in one array.
MaxHandlers == 2

ClientNames == {"api", "pets"}

\* A wrapper that never calls the per-client channel.
AfterGlobalSkipsNamed(hookIdentifier) == "local"

\* the stage that follows the global channel: if (hookIdentifier) ...
AfterGlobal(hookIdentifier) == IF hookIdentifier # "" THEN "named" ELSE "local"

\* the number of handlers hooks.callHook runs for the stage: those registered
\* on `openFetch:${hook}` or on `openFetch:${hook}:${hookIdentifier}`
Registered(h, stage) ==
    IF stage = "global" THEN h.bus[""]
    ELSE IF stage = "named" THEN h.bus[h.hookIdentifier]
    ELSE IF stage = "direct" THEN h.local.n
    ELSE 0

\* the handlers an options object may give for one kind of event: none, the
\* value undefined, one function or an array of n functions
NoHandler == [k |-> "absent", n |-> 0]
FactoryHandlers == {NoHandler, [k |-> "fn", n |-> 1]}
CallHandlers ==
    {NoHandler, [k |-> "undef", n |-> 0], [k |-> "fn", n |-> 1]}
    \cup {[k |-> "array", n |-> n] : n \in 0..MaxHandlers}

\* A wrapper that forgets the handler of the options.
BaseHookDropped(factoryHandler, callHandler) == NoHandler

\* line 91: baseOpts[hook], where baseOpts is { ...options, ...baseOpts }
\* (lines 128-131): the call's own property, else the factory's
BaseHook(factoryHandler, callHandler) == Spread(factoryHandler, callHandler)

\* the registrations of a bus nothing is registered on
EmptyBus == [c \in ClientNames \cup {""} |-> 0]

LogEntry(h, i, ev) ==
    [stage |-> h.stage, i |-> i, ev |-> ev,
     client |-> IF h.stage = "named" THEN h.hookIdentifier ELSE ""]

HookIdle == [st |-> "idle"]

\* The transport fires the event `kind` and calls opts[kind]. With a hook bus
\* that is the wrapper, which starts with hooks.callHook(`openFetch:${hook}`);
\* without one opts[kind] is baseOpts[kind] itself, and the transport calls
\* its handlers one after the other. bus gives the handlers registered for
\* this kind on the global channel ("") and on each client's channel; local
\* is baseOpts[hook].
HookFire ==
    /\ hook.st = "idle"
    /\ \E kind \in HookKinds, id \in ClientNames \cup {""}, hooks \in BOOLEAN,
          factoryHandler \in FactoryHandlers, callHandler \in CallHandlers :
          \E bus \in IF hooks THEN [ClientNames \cup {""} -> 0..MaxHandlers]
                              ELSE {EmptyBus} :
              hook' = [st |-> "running", kind |-> kind, hookIdentifier |-> id,
                       hooks |-> hooks, bus |-> bus,
                       factoryHandler |-> factoryHandler, callHandler |-> callHandler,
                       local |-> BaseHook(factoryHandler, callHandler),
                       stage |-> IF kind \in getOpenFetchHooks(hooks)
                                 THEN "global" ELSE "direct",
                       next |-> 1, running |-> {}, localCalled |-> FALSE, log |-> <<>>]
    /\ UNCHANGED <<fill, disp, cacheVars, setup, keys>>

\* hookable's callHook calls the handlers of a channel one after the other:
\* the next one starts when the one before has settled.
ChannelHandlerStart ==
    /\ hook.st = "running" /\ hook.stage \in {"global", "named", "direct"}
    /\ hook.running = {} /\ hook.next <= Registered(hook, hook.stage)
    /\ hook' = [hook EXCEPT !.running = {hook.next},
                             !.log = Append(@, LogEntry(hook, hook.next, "start"))]
    /\ UNCHANGED <<fill, disp, cacheVars, setup, keys>>

ChannelHandlerEnd ==
    /\ hook.st = "running" /\ hook.stage \in {"global", "named", "direct"}
    /\ \E i \in hook.running :
          hook' = [hook EXCEPT !.running = {}, !.next = i + 1,
                               !.log = Append(@, LogEntry(hook, i, "end"))]
    /\ UNCHANGED <<fill, disp, cacheVars, setup, keys>>

\* a handler throws: callHook rejects, and so does the wrapper
HandlerThrows ==
    /\ hook.st = "running"
    /\ \E i \in hook.running :
          hook' = [hook EXCEPT !.running = @ \ {i}, !.st = "failed",
                               !.log = Append(@, LogEntry(hook, i, "throw"))]
    /\ UNCHANGED <<fill, disp, cacheVars, setup, keys>>

\* callHook has resolved: the wrapper goes on to the next stage
ChannelDone ==
    /\ hook.st = "running" /\ hook.stage \in {"global", "named"}
    /\ hook.next > Registered(hook, hook.stage) /\ hook.running = {}
    /\ hook' = [hook EXCEPT !.next = 1,
                             !.stage = IF hook.stage = "global"
                                       THEN AfterGlobal(hook.hookIdentifier)
                                       ELSE "local"]
    /\ UNCHANGED <<fill, disp, cacheVars, setup, keys>>

\* without a wrapper, the transport has called the handlers it was given
DirectDone ==
    /\ hook.st = "running" /\ hook.stage = "direct"
    /\ hook.next > Registered(hook, hook.stage) /\ hook.running = {}
    /\ hook' = [hook EXCEPT !.st = "done"]
    /\ UNCHANGED <<fill, disp, cacheVars, setup, keys>>

\* if (baseHook) await (Array.isArray(baseHook) ? Promise.all(baseHook.map(...))
\* : baseHook(ctx)): every handler of an array is called at once, in order
RECURSIVE StartAll(_, _, _)
StartAll(h, i, n) ==
    IF i > n THEN <<>> ELSE <<LogEntry(h, i, "start")>> \o StartAll(h, i + 1, n)

LocalStart ==
    /\ hook.st = "running" /\ hook.stage = "local" /\ ~hook.localCalled
    /\ hook' = [hook EXCEPT !.localCalled = TRUE,
                             !.running = 1..hook.local.n,
                             !.log = @ \o StartAll(hook, 1, hook.local.n)]
    /\ UNCHANGED <<fill, disp, cacheVars, setup, keys>>

\* the handlers of one array settle in any order; after a rejection the
\* others still run to their end
LocalHandlerEnd ==
    /\ hook.st \in {"running", "failed"} /\ hook.stage = "local"
    /\ \E i \in hook.running :
          hook' = [hook EXCEPT !.running = @ \ {i},
                               !.log = Append(@, LogEntry(hook, i, "end"))]
    /\ UNCHANGED <<fill, disp, cacheVars, setup, keys>>

\* the wrapper returns
WrapperDone ==
    /\ hook.st = "running" /\ hook.stage = "local" /\ hook.localCalled
    /\ hook.running = {}
    /\ hook' = [hook EXCEPT !.st = "done"]
    /\ UNCHANGED <<fill, disp, cacheVars, setup, keys>>

HookNext ==
    \/ HookFire \/ ChannelHandlerStart \/ ChannelHandlerEnd \/ HandlerThrows
    \/ ChannelDone \/ DirectDone \/ LocalStart \/ LocalHandlerEnd \/ WrapperDone

Rank(stage) == IF stage = "global" THEN 1 ELSE IF stage = "named" THEN 2 ELSE 3

IsStart(e) == e.ev = "start"

RECURSIVE Starts(_, _, _, _)
Starts(stage, client, i, n) ==
    IF i > n THEN <<>>
    ELSE <<[stage |-> stage, client |-> client, i |-> i, ev |-> "start"]>>
         \o Starts(stage, client, i + 1, n)

\* C1: for a client with a hook bus and a name N, the handlers of an event
\* run global channel, then channel K:N, then the call's own handlers; no
\* handler of a later stage starts before every handler of the earlier stages
\* has ended, and a wrapper that returns has run all of them, in that order.
HooksRunGlobalNamedLocal ==
    (hook.st # "idle" /\ hook.hooks /\ hook.hookIdentifier # "") =>
        /\ \A i, j \in 1..Len(hook.log) :
              (i < j /\ Rank(hook.log[i].stage) < Rank(hook.log[j].stage)
                     /\ hook.log[i].ev = "start") =>
                  \E k \in (i + 1)..(j - 1) :
                      /\ hook.log[k].stage = hook.log[i].stage
                      /\ hook.log[k].i = hook.log[i].i
                      /\ hook.log[k].ev = "end"
        /\ \A i, j \in 1..Len(hook.log) :
              i < j => Rank(hook.log[i].stage) <= Rank(hook.log[j].stage)
        /\ \A i \in 1..Len(hook.log) :
              hook.log[i].stage = "named" => hook.log[i].client = hook.hookIdentifier
        /\ hook.st = "done" =>
              /\ SelectSeq(hook.log, IsStart)
                   = Starts("global", "", 1, hook.bus[""])
                     \o Starts("named", hook.hookIdentifier, 1, hook.bus[hook.hookIdentifier])
                     \o Starts("local", "", 1, hook.local.n)
              /\ Len(hook.log) = 2 * Len(SelectSeq(hook.log, IsStart))

\* a finished wrapper of client api with handlers on both channels and an
\* array of two local handlers that ended in reverse order
HooksRunWitness ==
    /\ hook.st = "done" /\ hook.hookIdentifier = "api"
    /\ hook.bus[""] = 2 /\ hook.bus["api"] = 1 /\ hook.bus["pets"] = 1
    /\ hook.hooks /\ hook.local = [k |-> "array", n |-> 2]
    /\ hook.log[Len(hook.log)].i = 1 /\ hook.log[Len(hook.log) - 1].i = 2

\* how often the i-th handler of the options was called
LocalStarts(i) ==
    Cardinality({k \in 1..Len(hook.log) :
                    /\ hook.log[k].stage \in {"local", "direct"}
                    /\ hook.log[k].i = i /\ hook.log[k].ev = "start"})

\* the handlers in effect: those of the call when its options have the
\* property (be it with the value undefined), else those of the factory
HandlersInEffect ==
    IF hook.callHandler.k # "absent" THEN hook.callHandler.n ELSE hook.factoryHandler.n

\* a handler of the global or the per-client channel has thrown
EarlierStageFailed ==
    \E k \in 1..Len(hook.log) :
        hook.log[k].ev = "throw" /\ hook.log[k].stage \in {"global", "named"}

Merged == BaseOpts(disp.factory, disp.callOpts)

\* C2: a call with a bodySerializer and a body (any value, also a falsy one)
\* hands the transport bodySerializer(body), and the serializer ran once.
SerializerOutputIsSent ==
    (disp.st = "sent" /\ Merged.bodySerializer.k = "val" /\ Merged.body.k = "val") =>
        /\ disp.opts.body.ser = Merged.bodySerializer.v
        /\ disp.serializerCalls = 1

\* the values of the Accept header among the headers sent
SentAccept == {disp.opts.headers[i][2] :
                 i \in {j \in 1..Len(disp.opts.headers) : disp.opts.headers[j][1] = "accept"}}

\* v is the media types of l in l's order, separated by ", "
IsJoinOf(v, l) ==
    /\ Len(v) = (IF l = <<>> THEN 0 ELSE 2 * Len(l) - 1)
    /\ \A i \in 1..Len(l) : v[2 * i - 1] = l[i]
    /\ \A i \in 1..(Len(l) - 1) : v[2 * i] = ", "

\* C4: with an accept option the transport gets exactly one Accept header, the
\* listed media types in the caller's order, nothing dropped or reordered; a
\* given Accept header is replaced and the accept option is not forwarded.
AcceptForwardedInOrder ==
    (disp.st = "sent" /\ Merged.accept.k \in {"single", "list"}) =>
        /\ Cardinality(SentAccept) = 1
        /\ \A v \in SentAccept : IsJoinOf(v, Merged.accept.l)
        /\ Cardinality({i \in 1..Len(disp.opts.headers) :
                           disp.opts.headers[i][1] = "accept"}) = 1
        /\ Absent(disp.opts.accept)

\* a call that lists the same media type twice and also gives an Accept header
AcceptForwardedWitness ==
    /\ disp.st = "sent"
    /\ Merged.accept = [k |-> "list", l |-> <<"v2", "v2">>]
    /\ Merged.headers.k = "val"
    /\ SentAccept = {<<"v2", ", ", "v2">>}

\* the base URL in effect is empty: there is none, or it is the empty string
NoEffectiveBase(b) == b.k \in {"absent", "undef"} \/ b.s = <<>>

\* C12: a call goes to the local transport exactly when it runs on the server,
\* the factory was given a local transport, the URL template starts with "/"
\* and the merged base URL is empty or starts with "/"; every other call goes
\* to the global transport, and a call goes to one of the two.
LocalTransportIffServerRelative ==
    disp.st = "sent" =>
        /\ disp.transport \in {"local", "global"}
        /\ disp.transport = "local" <=>
              /\ disp.isServer /\ disp.localFetch
              /\ StartsWith(disp.url, <<"/">>)
              /\ NoEffectiveBase(Merged.baseURL) \/ StartsWith(Merged.baseURL.s, <<"/">>)

\* a server call that overrides the factory's base URL with undefined
LocalTransportWitness ==
    /\ disp.st = "sent" /\ disp.isServer /\ disp.localFetch
    /\ disp.factory.form = "object" /\ disp.options.baseURL.k = "val"
    /\ StartsWith(disp.url, <<"/">>)
    /\ disp.callOpts.baseURL.k = "undef" /\ disp.transport = "local"

\* C14: whatever calls were made on a client, the factory's options object and
\* the options object the caller passed are as they were handed over, and
\* what a call sends is what the first call with these arguments sends.
CallsLeaveOptionsAlone ==
    disp.st = "sent" =>
        /\ disp.optionsAfter = disp.created
        /\ disp.callOptsAfter = disp.passed
        /\ LET first == Call(1, disp.created, disp.passed,
                             [disp.factory EXCEPT !.options = disp.created],
                             disp.passed, disp.url, disp.localFetch, disp.hooks,
                             disp.isServer)
           IN  /\ disp.opts = first.opts
               /\ disp.request = first.request
               /\ disp.transport = first.transport

\* the second call of a client whose options function returns its argument:
\* the call moved header to headers, set Accept and serialized the body, and
\* the caller's object still has header, accept and the body as given
CallsLeaveOptionsAloneWitness ==
    /\ disp.st = "sent" /\ disp.n = 2 /\ disp.factory.form = "argument"
    /\ disp.passed.header.k = "val" /\ disp.passed.accept.k = "list"
    /\ disp.passed.body.k = "val" /\ disp.passed.bodySerializer.k = "val"
    /\ disp.opts.header.k = "absent" /\ disp.opts.accept.k = "absent"
    /\ disp.opts.body.ser = "toFormData"
    /\ disp.callOptsAfter = disp.passed

-----------------------------------------------------------------------------
(* addCachedSchemaTemplate: the schema cache *)

\* Two builds may run against one cache directory.
Builds == {1, 2}

\* Clients: p and pV have a local schema file, i an inline schema document.
FileClients == {<<"p">>, <<"p", "V">>}
InlineClients == {<<"i">>}

\* kebabCase of a client name: an upper-case letter starts a new word
RECURSIVE kebabCase(_)
kebabCase(name) ==
    IF name = <<>> THEN <<>>
    ELSE IF Head(name) = "V" THEN <<"-", "v">> \o kebabCase(Tail(name))
    ELSE <<Head(name)>> \o kebabCase(Tail(name))

\* the contents a schema file may have, and the compiler options of a build
FileBodies == {"v1", "v2"}
CompilerOptions == {"o1", "o2"}

\* what schemaFiles holds for a declared path at which there is no file
Missing == "missing"

\* An existence test that takes every declared path for a file.
existsSyncDeclared(files, name) == name \in DOMAIN files

\* line 353: typeof filePath === 'string' && existsSync(filePath); an inline
\* schema document is no path at all
existsSync(files, name) == name \in DOMAIN files /\ files[name] # Missing

\* astToString(await openapiTS(schema, openAPITS)): the compiler is a function
\* of the schema document and its options; its output is never empty.
openapiTS(name, openAPITS, body) == <<"types", "of">> \o name \o <<openAPITS, body>>

\* hash([schema, openAPITS, moduleName, shortName, fileBody]): a cryptographic
\* digest, modelled as an injective encoding of what is hashed
hash(name, openAPITS, shortName, fileBody) ==
    <<"#">> \o name \o <<openAPITS, "open-fetch">> \o shortName \o <<fileBody>>

\* `${shortName}-${key}.ts`
CachedPath(shortName, key) == shortName \o <<"-">> \o key \o <<".ts">>

FileNames(dir) == {f[1] : f \in dir}
ContentsOf(dir, name) == (CHOOSE f \in dir : f[1] = name)[2]

\* A prune that does not spare the file just written.
StaleAlsoOwn(file, shortName, key) == StartsWith(file, shortName \o <<"-">>)

\* A prune that removes nothing.
StaleNever(file, shortName, key) == FALSE

\* file.startsWith(`${shortName}-`) && file !== `${shortName}-${key}.ts`
Stale(file, shortName, key) ==
    StartsWith(file, shortName \o <<"-">>) /\ file # CachedPath(shortName, key)

NoRun == [name |-> <<>>, openAPITS |-> "", fileBody |-> "", result |-> <<>>,
          cached |-> FALSE]

BuildIdle == [pc |-> "idle", name |-> <<>>, openAPITS |-> "", fileBody |-> "",
              contents |-> <<>>, todo |-> {}, result |-> <<>>, compiles |-> 0,
              reads |-> 0, writes |-> 0, prev |-> NoRun]

ShortName(b) == kebabCase(build[b].name)
Key(b) == hash(build[b].name, build[b].openAPITS, ShortName(b), build[b].fileBody)
OwnPath(b) == CachedPath(ShortName(b), Key(b))

\* the schema file of a client is edited, removed or put back between builds
EditSchema ==
    /\ \A b \in Builds : build[b].pc = "idle"
    /\ \E c \in FileClients, body \in FileBodies \cup {Missing} :
          /\ schemaFiles[c] # body
          /\ schemaFiles' = [schemaFiles EXCEPT ![c] = body]
    /\ UNCHANGED <<fill, disp, hook, setup, keys, cacheDir, build, lastRun>>

\* lines 348-361: the local file is read; a schema that is no local file goes
\* to the compiler uncached
Begin(b, mayStart) ==
    /\ build[b].pc = "idle" /\ mayStart
    /\ \E name \in FileClients \cup InlineClients, o \in CompilerOptions :
          build' = [build EXCEPT ![b] =
                      [BuildIdle EXCEPT
                         !.pc = IF existsSync(schemaFiles, name)
                                THEN "exists" ELSE "uncached",
                         !.name = name, !.openAPITS = o,
                         !.fileBody = IF existsSync(schemaFiles, name)
                                      THEN schemaFiles[name] ELSE "",
                         !.prev = lastRun]]
    /\ UNCHANGED <<fill, disp, hook, setup, keys, schemaFiles, cacheDir, lastRun>>

\* lines 359-360: the compiler is called on the schema as configured. What it
\* makes of a path at which there is no file is its own business: it returns
\* a text or rejects, and the rejection leaves the call as it is.
CompileUncached(b) ==
    /\ build[b].pc = "uncached"
    /\ \E returns \in IF build[b].name \in InlineClients THEN {TRUE} ELSE BOOLEAN :
          build' = [build EXCEPT
                      ![b].pc = IF returns THEN "done" ELSE "failed",
                      ![b].compiles = @ + 1,
                      ![b].result = IF returns
                                    THEN openapiTS(build[b].name, build[b].openAPITS, "")
                                    ELSE <<>>]
    /\ UNCHANGED <<fill, disp, hook, setup, keys, schemaFiles, cacheDir, lastRun>>

\* line 366: existsSync(cachedPath)
ExistsCached(b) ==
    /\ build[b].pc = "exists"
    /\ build' = [build EXCEPT ![b].pc = IF OwnPath(b) \in FileNames(cacheDir)
                                        THEN "read" ELSE "compile"]
    /\ UNCHANGED <<fill, disp, hook, setup, keys, schemaFiles, cacheDir, lastRun>>

\* line 367: readFile(cachedPath) runs after the test, on the file as it then
\* is; it rejects when the file is gone
ReadCached(b) ==
    /\ build[b].pc = "read"
    /\ build' = [build EXCEPT
                    ![b].pc = IF OwnPath(b) \in FileNames(cacheDir) THEN "done" ELSE "failed",
                    ![b].reads = @ + 1,
                    ![b].result = IF OwnPath(b) \in FileNames(cacheDir)
                                  THEN ContentsOf(cacheDir, OwnPath(b)) ELSE <<>>]
    /\ UNCHANGED <<fill, disp, hook, setup, keys, schemaFiles, cacheDir, lastRun>>

\* lines 370-371
Compile(b) ==
    /\ build[b].pc = "compile"
    /\ build' = [build EXCEPT
                    ![b].pc = "open", ![b].compiles = @ + 1,
                    ![b].contents = openapiTS(build[b].name, build[b].openAPITS,
                                              schemaFiles[build[b].name])]
    /\ UNCHANGED <<fill, disp, hook, setup, keys, schemaFiles, cacheDir, lastRun>>

\* line 373: writeFile first opens the file, which creates or empties it, ...
WriteOpen(b) ==
    /\ build[b].pc = "open"
    /\ cacheDir' = {f \in cacheDir : f[1] # OwnPath(b)} \cup {<<OwnPath(b), <<>>>>}
    /\ build' = [build EXCEPT ![b].pc = "write", ![b].writes = @ + 1]
    /\ UNCHANGED <<fill, disp, hook, setup, keys, schemaFiles, lastRun>>

\* ... and then writes the contents (to a file no longer in the directory when
\* it was unlinked meanwhile)
WriteContents(b) ==
    /\ build[b].pc = "write"
    /\ cacheDir' = IF OwnPath(b) \in FileNames(cacheDir)
                   THEN {f \in cacheDir : f[1] # OwnPath(b)}
                        \cup {<<OwnPath(b), build[b].contents>>}
                   ELSE cacheDir
    /\ build' = [build EXCEPT ![b].pc = "readdir"]
    /\ UNCHANGED <<fill, disp, hook, setup, keys, schemaFiles, lastRun>>

\* line 375: readdir(cacheDir); the loop then visits the files it listed
ReadDir(b) ==
    /\ build[b].pc = "readdir"
    /\ build' = [build EXCEPT
                    ![b].pc = "prune",
                    ![b].todo = {f \in FileNames(cacheDir) : Stale(f, ShortName(b), Key(b))}]
    /\ UNCHANGED <<fill, disp, hook, setup, keys, schemaFiles, cacheDir, lastRun>>

\* lines 376-381: unlink one listed file; a failure (the file is already
\* gone) is swallowed
Unlink(b) ==
    /\ build[b].pc = "prune"
    /\ \E f \in build[b].todo :
          /\ cacheDir' = {g \in cacheDir : g[1] # f}
          /\ build' = [build EXCEPT ![b].todo = @ \ {f},
                          ![b].writes = IF f \in FileNames(cacheDir) THEN @ + 1 ELSE @]
    /\ UNCHANGED <<fill, disp, hook, setup, keys, schemaFiles, lastRun>>

\* line 384
ReturnContents(b) ==
    /\ build[b].pc = "prune" /\ build[b].todo = {}
    /\ build' = [build EXCEPT ![b].pc = "done", ![b].result = build[b].contents]
    /\ UNCHANGED <<fill, disp, hook, setup, keys, schemaFiles, cacheDir, lastRun>>

\* the call has returned or thrown, the build is over. lastRun remembers the
\* call when builds run one at a time (only then is there a "run before").
Finish(b, oneAtATime) ==
    /\ build[b].pc \in {"done", "failed"}
    /\ lastRun' = IF build[b].pc = "done" /\ oneAtATime
                  THEN [name |-> build[b].name, openAPITS |-> build[b].openAPITS,
                        fileBody |-> build[b].fileBody, result |-> build[b].result,
                        cached |-> build[b].fileBody \in FileBodies]
                  ELSE NoRun
    /\ build' = [build EXCEPT ![b] = BuildIdle]
    /\ UNCHANGED <<fill, disp, hook, setup, keys, schemaFiles, cacheDir>>

Step(b) ==
    \/ CompileUncached(b) \/ ExistsCached(b) \/ ReadCached(b) \/ Compile(b)
    \/ WriteOpen(b) \/ WriteContents(b) \/ ReadDir(b) \/ Unlink(b)
    \/ ReturnContents(b)

\* builds against one cache directory, in any interleaving
CacheNext ==
    EditSchema \/ \E b \in Builds : Begin(b, TRUE) \/ Step(b) \/ Finish(b, FALSE)

\* builds one at a time
OthersIdle(b) == \A o \in Builds \ {b} : build[o].pc = "idle"
CacheSeqNext ==
    EditSchema \/ \E b \in Builds : Begin(b, OthersIdle(b)) \/ Step(b) \/ Finish(b, TRUE)

-----------------------------------------------------------------------------
(* setup: resolving each client's schema over the configuration layers *)

MaxLayers == 2

\* the root directory of the n-th layer
RootDir(n) == <<"root", n>>

SetupClients == {"a", "b"}

\* config.schema: undefined, an OpenAPI document, or a string that is an
\* absolute URL or a path
SchemaConfigs ==
    {[k |-> "none", s |-> ""], [k |-> "inline", s |-> ""],
     [k |-> "string", s |-> "https://x/openapi.json"],
     [k |-> "string", s |-> "./spec.yaml"]}

\* isValidUrl: new URL(url) does not throw
isValidUrl(url) == url \in {"https://x/openapi.json"}

\* const extensions = ['json', 'yaml', 'yml']
extensions == <<"json", "yaml", "yml">>

\* the conventional schema files that may exist: <<rootDir, name, extension>>
ConventionalFiles ==
    {<<RootDir(1), "a", "yaml">>, <<RootDir(1), "a", "yml">>,
     <<RootDir(2), "a", "json">>, <<RootDir(2), "b", "yml">>}

\* lines 86-95: the first extension whose file exists under the layer's
\* openapi directory, as a file URL; none found leaves schema undefined
ProbeConventional(files, rootDir, name) ==
    LET found == {i \in 1..Len(extensions) : <<rootDir, name, extensions[i]>> \in files}
    IN  IF found = {} THEN [k |-> "none", root |-> <<>>, path |-> ""]
        ELSE [k |-> "file", root |-> rootDir,
              path |-> "openapi/" \o name \o "/openapi." \o extensions[Min(found)]]

\* lines 84-98
ResolveSchema(files, rootDir, name, config) ==
    IF config.k = "none" THEN ProbeConventional(files, rootDir, name)
    ELSE IF config.k = "string"
         THEN IF isValidUrl(config.s)
              THEN [k |-> "url", root |-> <<>>, path |-> config.s]
              ELSE [k |-> "file", root |-> rootDir, path |-> config.s]
    ELSE [k |-> "inline", root |-> <<>>, path |-> ""]

\* A loop that does not look at what is resolved already.
NeverResolved(schemas, name) == FALSE

\* schemas.some(item => item.name === name)
AlreadyResolved(schemas, name) == \E i \in 1..Len(schemas) : schemas[i].name = name

\* Object.entries(options.clients).filter(([key]) => openFetch?.clients?.[key])
RECURSIVE LayerClients(_, _)
LayerClients(clients, listed) ==
    IF clients = <<>> THEN <<>>
    ELSE (IF Head(clients)[1] \in listed THEN <<Head(clients)>> ELSE <<>>)
         \o LayerClients(Tail(clients), listed)

\* options.clients: the entries of the merged module options, in key order
ClientEntries ==
    {<<>>}
    \cup {<<<<n, c>>>> : n \in SetupClients, c \in SchemaConfigs}
    \cup {<<<<n1, c1>>, <<n2, c2>>>> :
            <<n1, n2>> \in {<<"a", "b">>, <<"b", "a">>},
            <<c1, c2>> \in SchemaConfigs \X SchemaConfigs}

\* nuxt.options._layers: each layer's own openFetch.clients keys; there is
\* always the project's layer
RECURSIVE LayerLists(_)
LayerLists(n) ==
    IF n = 0 THEN {<<>>}
    ELSE LET L == LayerLists(n - 1)
         IN  L \cup {Append(l, listed) : l \in {x \in L : Len(x) = n - 1},
                                        listed \in SUBSET SetupClients}

SetupIdle == [st |-> "idle"]

\* lines 60-68: setup starts; without options.clients it returns at once
SetupStart ==
    /\ setup.st = "idle"
    /\ \E clients \in ClientEntries, layers \in LayerLists(MaxLayers) \ {<<>>},
          files \in SUBSET ConventionalFiles, given \in BOOLEAN :
          /\ given \/ (clients = <<>> /\ Len(layers) = 1 /\ files = {})
          /\ setup' = [st |-> IF given THEN "layers" ELSE "done",
                        given |-> given, clients |-> clients, layers |-> layers,
                        files |-> files, layer |-> 1, todo |-> <<>>,
                        schemas |-> <<>>, error |-> ""]
    /\ UNCHANGED <<fill, disp, hook, cacheVars, keys>>

\* lines 70-73: the next layer and its layerClients; after the last layer the
\* loop is over
SetupLayer ==
    /\ setup.st = "layers"
    /\ setup' = IF setup.layer > Len(setup.layers)
                THEN [setup EXCEPT !.st = "done"]
                ELSE [setup EXCEPT !.st = "clients",
                                   !.todo = LayerClients(setup.clients,
                                                         setup.layers[setup.layer])]
    /\ UNCHANGED <<fill, disp, hook, cacheVars, keys>>

\* lines 79-112: one pass of the inner loop
SetupClient ==
    /\ setup.st = "clients"
    /\ IF setup.todo = <<>>
       THEN setup' = [setup EXCEPT !.st = "layers", !.layer = @ + 1]
       ELSE LET name == Head(setup.todo)[1]
                config == Head(setup.todo)[2]
                schema == ResolveSchema(setup.files, RootDir(setup.layer), name, config)
            IN  IF AlreadyResolved(setup.schemas, name)
                THEN setup' = [setup EXCEPT !.todo = Tail(@)]
                ELSE IF schema.k = "none"
                THEN setup' = [setup EXCEPT !.st = "failed", !.error = name]
                ELSE setup' = [setup EXCEPT
                                 !.todo = Tail(@),
                                 !.schemas = Append(@, [name |-> name, schema |-> schema,
                                                        layer |-> setup.layer])]
    /\ UNCHANGED <<fill, disp, hook, cacheVars, keys>>

SetupNext == SetupStart \/ SetupLayer \/ SetupClient

\* the names options.clients configures
Configured == {setup.clients[i][1] : i \in 1..Len(setup.clients)}
ConfigOf(name) == (CHOOSE i \in 1..Len(setup.clients) : setup.clients[i][1] = name)
LayersListing(name) == {l \in 1..Len(setup.layers) : name \in setup.layers[l]}

\* C8: no two resolved schemas have the same name; the entry of a name is
\* made in the first layer that configures the name, a relative schema path
\* is resolved against that layer's root directory, and later layers change
\* nothing of it.
FirstLayerWins ==
    setup.st # "idle" =>
        /\ \A i, j \in 1..Len(setup.schemas) :
              setup.schemas[i].name = setup.schemas[j].name => i = j
        /\ \A i \in 1..Len(setup.schemas) :
              LET e == setup.schemas[i]
                  first == Min(LayersListing(e.name))
                  config == setup.clients[ConfigOf(e.name)][2]
              IN  /\ LayersListing(e.name) # {}
                  /\ e.layer = first
                  /\ e.schema.k = "file" => e.schema.root = RootDir(first)
                  /\ config.s = "./spec.yaml" =>
                        e.schema = [k |-> "file", root |-> RootDir(first), path |-> "./spec.yaml"]
                  /\ config.k = "none" =>
                        \E x \in {"json", "yaml", "yml"} :
                            <<RootDir(first), e.name, x>> \in setup.files

\* two layers configure a, whose schema is a relative path: the entry was
\* made in the first layer and the second layer left it alone
FirstLayerWinsWitness ==
    /\ setup.st = "done"
    /\ Len(setup.layers) = 2 /\ "a" \in setup.layers[1] /\ "a" \in setup.layers[2]
    /\ Len(setup.schemas) = 2
    /\ \E i \in 1..2 :
          setup.schemas[i] = [name |-> "a", layer |-> 1,
                              schema |-> [k |-> "file", root |-> RootDir(1),
                                          path |-> "./spec.yaml"]]

\* C9: setup ends with a resolved schema for every configured client, or
\* with an error that names the client without a schema.
EveryConfiguredClientResolved ==
    /\ setup.st = "done" =>
          \A n \in Configured : \E i \in 1..Len(setup.schemas) : setup.schemas[i].name = n
    /\ setup.st = "failed" => setup.error \in Configured

-----------------------------------------------------------------------------
(* createAutoKey: the key of a composable call *)

\* JavaScript values: t is the kind, v the text of a string or number (or the
\* identity of a FormData), e the entries of an object in property order; a
\* ref (or computed) and a getter function hold their value as entry "value".
Value(t, v, e) == [t |-> t, v |-> v, e |-> e]
U == Value("undef", "", <<>>)
Str(x) == Value("str", x, <<>>)
Num(x) == Value("num", x, <<>>)
Obj(entries) == Value("obj", "", entries)
Ref(x) == Value("ref", "", <<<<"value", x>>>>)
Getter(x) == Value("getter", "", <<<<"value", x>>>>)
FormData(id) == Value("form", id, <<>>)

\* vue's toValue: isFunction(source) ? source() : unref(source)
toValue(x) == IF x.t \in {"ref", "getter"} THEN x.e[1][2] ELSE x

RECURSIVE JoinTexts(_)
JoinTexts(texts) ==
    IF texts = <<>> THEN <<>>
    ELSE IF Len(texts) = 1 THEN texts[1]
    ELSE texts[1] \o <<",">> \o JoinTexts(Tail(texts))

\* JSON.stringify(value, replacer) with replacer (_, value) => toValue(value):
\* SerializeJSONProperty gets the property's value from the replacer, gives no
\* text for undefined and for a function, and visits the properties of an
\* object in order, leaving out those without text. A FormData has no
\* enumerable property of its own. The result is <<>> for "no text".
RECURSIVE SerializeJSONProperty(_, _)
RECURSIVE SerializeJSONMembers(_, _)
SerializeJSONProperty(raw, withReplacer) ==
    LET value == IF withReplacer THEN toValue(raw) ELSE raw
    IN  IF value.t = "null" THEN <<"null">>
        ELSE IF value.t = "str" THEN <<"\"", value.v, "\"">>
        ELSE IF value.t = "num" THEN <<value.v>>
        ELSE IF value.t = "form" THEN <<"{", "}">>
        ELSE IF value.t = "obj"
             THEN <<"{">> \o JoinTexts(SerializeJSONMembers(value.e, withReplacer)) \o <<"}">>
        ELSE <<>>

SerializeJSONMembers(entries, withReplacer) ==
    IF entries = <<>> THEN <<>>
    ELSE LET text == SerializeJSONProperty(Head(entries)[2], withReplacer)
             rest == SerializeJSONMembers(Tail(entries), withReplacer)
         IN  IF text = <<>> THEN rest
             ELSE <<(<<"\"", Head(entries)[1], "\"", ":">> \o text)>> \o rest

\* ohash's digest: SHA-256 of the text, taken as free of collisions
digest(text) == <<"sha256">> \o text

\* createAutoKey(client, url, options)
createAutoKey(client, url, options) ==
    LET resolvedRequestOptions ==
            Obj(<<<<"url", url>>, <<"method", options.method>>, <<"path", options.path>>,
                  <<"query", options.query>>, <<"body", options.body>>>>)
        resolvedRequestOptionsJson == SerializeJSONProperty(resolvedRequestOptions, TRUE)
    IN  <<"$", client, "-">> \o digest(resolvedRequestOptionsJson)

\* The url and the options a call may give; an option not given is undefined.
KeyUrls == {Str("/pet"), Getter(Str("/pet")), Str("/x")}
KeyMethods == {U, Str("get"), Ref(Str("get"))}
KeyPaths == {Obj(<<<<"id", Num("1")>>>>), Obj(<<<<"id", Ref(Num("1"))>>>>),
             Ref(Obj(<<<<"id", Num("2")>>>>))}
KeyQueries == {U, Obj(<<>>), Obj(<<<<"a", U>>>>),
               Obj(<<<<"a", Num("1")>>, <<"b", Num("2")>>>>),
               Obj(<<<<"b", Getter(Num("2"))>>, <<"a", Ref(Num("1"))>>>>),
               Obj(<<<<"a", Obj(<<<<"b", Ref(Num("2"))>>>>)>>>>),
               Obj(<<<<"a", Getter(Obj(<<<<"b", Num("2")>>>>))>>>>)}
KeyBodies == {U, Value("null", "", <<>>), FormData("1"), FormData("2"),
              Obj(<<<<"n", Str("x")>>>>), Ref(Obj(<<<<"n", Getter(Str("x"))>>>>))}

KeyCalls == [url : KeyUrls, method : KeyMethods, path : KeyPaths, query : KeyQueries,
             body : KeyBodies]

KeyFields == {"url", "method", "path", "query", "body"}

KeysIdle == [st |-> "idle"]

\* Two calls of use<Client> without a key option; the second gives other
\* values (or other reactive objects) for up to MaxFieldsChanged of the fields.
MaxFieldsChanged == 1

ComposableCalls ==
    /\ keys.st = "idle"
    /\ \E c1 \in KeyCalls, c2 \in KeyCalls, client \in ClientNames :
          /\ Cardinality({f \in KeyFields : c1[f] # c2[f]}) <= MaxFieldsChanged
          /\ keys' = [st |-> "done", client |-> client, call1 |-> c1, call2 |-> c2,
                       key1 |-> createAutoKey(client, c1.url, c1),
                       key2 |-> createAutoKey(client, c2.url, c2)]
    /\ UNCHANGED <<fill, disp, hook, cacheVars, setup>>

\* createUseOpenFetch: the options handed to useFetch

\* options.key: no such property, undefined, null, or the caller's key
NoKey == Value("absent", "", <<>>)
KeyOptions == {NoKey, U, Value("null", "", <<>>), Str("mine")}

\* a ?? b takes b when a is undefined or null; a property that is not there
\* reads as undefined
Nullish(v) == v.t \in {"absent", "undef", "null"}

\* the key createAutoKey returned, as a value
DerivedKey(text) == Value("str", "derived", text)

\* line 263: const key = options.key ?? createAutoKey(client.toString(), url, options)
KeyConstant(client, url, options) ==
    IF Nullish(options.key) THEN DerivedKey(createAutoKey(client, url, options))
    ELSE options.key

\* lines 264-266: { $fetch: fetch, key, ...options }, and lazy when the
\* composable is the lazy one. The spread of options comes after key: a key
\* property of options is written over the constant, whatever its value.
\* The accept option goes on to the client, which sets the Accept header.
UseFetchOptions(client, lazy, url, options) ==
    [fetch |-> client,
     key |-> IF options.key.t = "absent" THEN KeyConstant(client, url, options)
             ELSE options.key,
     autoKeyCalls |-> IF Nullish(options.key) THEN 1 ELSE 0,
     lazy |-> lazy,
     accept |-> options.accept,
     acceptHeader |-> IF AcceptTruthy(options.accept)
                      THEN AcceptHeaderValue(options.accept) ELSE <<>>]

\* the request shapes and the accept options of the calls
UseCalls == {c \in KeyCalls : c.path = Obj(<<<<"id", Num("1")>>>>) /\ c.query = U
                              /\ c.body \in {U, Obj(<<<<"n", Str("x")>>>>)}}
UseAccepts == {NoAccept} \cup {[k |-> "single", l |-> <<m>>] : m \in MediaTypes}

\* Two calls of use<Client> or useLazy<Client> with the same url, method,
\* path, query, body and key, each with an accept option of its own.
UseOpenFetchCalls ==
    /\ keys.st = "idle"
    /\ \E c \in UseCalls, key \in KeyOptions, a1 \in UseAccepts, a2 \in UseAccepts,
          client \in ClientNames, lazy \in BOOLEAN :
          LET o1 == [url |-> c.url, method |-> c.method, path |-> c.path,
                     query |-> c.query, body |-> c.body, key |-> key, accept |-> a1]
              o2 == [o1 EXCEPT !.accept = a2]
          IN  keys' = [st |-> "used", client |-> client, lazy |-> lazy,
                       call1 |-> o1, call2 |-> o2,
                       use1 |-> UseFetchOptions(client, lazy, o1.url, o1),
                       use2 |-> UseFetchOptions(client, lazy, o2.url, o2)]
    /\ UNCHANGED <<fill, disp, hook, cacheVars, setup>>

\* the plain value a reactive value resolves to: refs, computed values and
\* getters unwrapped at every depth
RECURSIVE Resolved(_)
RECURSIVE ResolvedEntries(_)
Resolved(x) ==
    IF x.t = "ref" \/ x.t = "getter" THEN Resolved(x.e[1][2])
    ELSE IF x.t = "obj" THEN Obj(ResolvedEntries(x.e))
    ELSE x

ResolvedEntries(entries) ==
    IF entries = <<>> THEN <<>>
    ELSE <<<<Head(entries)[1], Resolved(Head(entries)[2])>>>> \o ResolvedEntries(Tail(entries))

\* a plain value as deep equality sees it: the order of the properties does
\* not count, and a property that is undefined counts as not there
RECURSIVE Unordered(_)
Unordered(x) ==
    [t |-> x.t, v |-> x.v,
     m |-> {<<x.e[i][1], Unordered(x.e[i][2])>> :
              i \in {j \in 1..Len(x.e) : x.e[j][2].t # "undef"}}]

ResolvedCall(c) == [f \in KeyFields |-> Unordered(Resolved(c[f]))]

\* the JSON text of the resolved request shape
ResolvedJson(c) ==
    SerializeJSONProperty(
        Obj(<<<<"url", Resolved(c.url)>>, <<"method", Resolved(c.method)>>,
              <<"path", Resolved(c.path)>>, <<"query", Resolved(c.query)>>,
              <<"body", Resolved(c.body)>>>>), FALSE)

\* C10: two calls of one client whose url, method, path, query and body
\* resolve to equal plain values get the same key, and two calls whose
\* resolved values differ get different keys.
KeyTellsResolvedValuesApart ==
    keys.st = "done" =>
        ((keys.key1 = keys.key2) <=> (ResolvedCall(keys.call1) = ResolvedCall(keys.call2)))

\* What the key does tell apart: the keys of two calls are equal exactly when
\* the JSON texts of their resolved request shapes are equal; so equal values
\* in the same property order behind different refs, computed values or
\* getters, at any depth, give the same key.
KeyIsJsonOfResolvedValues ==
    keys.st = "done" =>
        /\ (keys.key1 = keys.key2) <=> (ResolvedJson(keys.call1) = ResolvedJson(keys.call2))
        /\ (\A f \in KeyFields : Resolved(keys.call1[f]) = Resolved(keys.call2[f]))
              => keys.key1 = keys.key2

\* the same path parameter, once plain and once behind a ref
KeyOfResolvedValuesReached ==
    /\ keys.st = "done"
    /\ keys.call1.path = Obj(<<<<"id", Num("1")>>>>)
    /\ keys.call2.path = Obj(<<<<"id", Ref(Num("1"))>>>>)
    /\ keys.call1.query = Obj(<<<<"b", Getter(Num("2"))>>, <<"a", Ref(Num("1"))>>>>)
    /\ keys.key1 = keys.key2

\* the run of build b has the inputs of the run that returned just before it
SameAsRunBefore(b) ==
    /\ build[b].prev.cached
    /\ build[b].prev.name = build[b].name
    /\ build[b].prev.openAPITS = build[b].openAPITS
    /\ build[b].prev.fileBody = build[b].fileBody

\* C5: for a file-backed schema, a run that follows a run with the same
\* schema, options, names and file contents returns the same text, never
\* calls the compiler and writes or deletes no cache file.
SecondRunIsCacheHit ==
    \A b \in Builds :
        (build[b].pc # "idle" /\ SameAsRunBefore(b)) =>
            /\ build[b].compiles = 0 /\ build[b].writes = 0
            /\ build[b].pc \notin {"compile", "open", "write", "readdir", "prune", "failed"}
            /\ build[b].pc = "done" => build[b].result = build[b].prev.result

SecondRunWitness ==
    \E b \in Builds :
        /\ build[b].pc = "done" /\ SameAsRunBefore(b)
        /\ build[b].name = <<"p">>
        /\ build[b].result = openapiTS(<<"p">>, build[b].openAPITS, build[b].fileBody)

\* the cache files whose name starts with the short name of build b's client
ArtifactsOf(b) == {f \in FileNames(cacheDir) : StartsWith(f, ShortName(b) \o <<"-">>)}

\* C6: when builds run one after the other, a cache-miss compile for short
\* name s leaves exactly one artifact of s in the cache directory, the one of
\* the current fingerprint, with the compiler's output in it.
OneArtifactAfterCompile ==
    \A b \in Builds :
        (build[b].pc = "done" /\ build[b].fileBody \in FileBodies /\ build[b].compiles > 0) =>
            /\ ArtifactsOf(b) = {OwnPath(b)}
            /\ ContentsOf(cacheDir, OwnPath(b))
                  = openapiTS(build[b].name, build[b].openAPITS, build[b].fileBody)

\* a compile of p after a run of p with other file contents: the artifact of
\* the fingerprint before is gone
OneArtifactWitness ==
    \E b \in Builds :
        /\ build[b].pc = "done" /\ build[b].compiles = 1 /\ build[b].name = <<"p">>
        /\ build[b].prev.cached /\ build[b].prev.name = <<"p">>
        /\ build[b].prev.fileBody # build[b].fileBody
        /\ CachedPath(<<"p">>, hash(<<"p">>, build[b].prev.openAPITS, <<"p">>,
                                     build[b].prev.fileBody)) \notin FileNames(cacheDir)
        /\ ArtifactsOf(b) = {OwnPath(b)}

\* C7: in every interleaving of two builds each call returns, and returns the
\* whole compiler output for its own schema and options (the one call that
\* may reject is the one whose compiler rejected a path without a file).
RacingBuildsReturnOwnOutput ==
    \A b \in Builds :
        /\ build[b].pc = "failed" => build[b].fileBody \notin FileBodies
        /\ build[b].pc = "done" =>
              build[b].result = openapiTS(build[b].name, build[b].openAPITS, build[b].fileBody)

\* the schema of build b's client is no local file that exists
NotAnExistingFile(b) ==
    ~(build[b].name \in FileClients /\ schemaFiles[build[b].name] \in FileBodies)

ArtifactOfRunBefore(b) ==
    CachedPath(kebabCase(build[b].prev.name),
               hash(build[b].prev.name, build[b].prev.openAPITS,
                    kebabCase(build[b].prev.name), build[b].prev.fileBody))

\* C16: a build of client A that follows a build of another client B with a
\* different short name leaves B's artifact in the cache directory, also when
\* B's short name is A's short name, a hyphen and more.
PruneSparesOtherClients ==
    \A b \in Builds :
        ( /\ build[b].pc = "done" /\ build[b].prev.cached
          /\ kebabCase(build[b].prev.name) # ShortName(b) ) =>
            ArtifactOfRunBefore(b) \in FileNames(cacheDir)

\* C11: the key handed to useFetch is the caller's key when the caller gave
\* one, and createAutoKey is then not called; in every other case, also with
\* a key property that is undefined or null, it is the derived key.
HandedKeyIsOwnOrDerived ==
    keys.st = "used" =>
        IF keys.call1.key.t = "str"
        THEN keys.use1.key = keys.call1.key /\ keys.use1.autoKeyCalls = 0
        ELSE keys.use1.key
               = DerivedKey(createAutoKey(keys.client, keys.call1.url, keys.call1))

\* C18: two calls without a key of their own that ask for different media
\* types, and so send different Accept headers, get different keys.
OtherAcceptOtherKey ==
    ( /\ keys.st = "used" /\ keys.call1.key.t = "absent"
      /\ keys.use1.acceptHeader # keys.use2.acceptHeader ) =>
        keys.use1.key # keys.use2.key

-----------------------------------------------------------------------------
(* Specifications *)

Init ==
    /\ fill = FillIdle /\ disp = DispIdle /\ hook = HookIdle
    /\ schemaFiles = [c \in FileClients |-> "v1"]
    /\ cacheDir = {}
    /\ build = [b \in Builds |-> BuildIdle]
    /\ lastRun = NoRun
    /\ setup = SetupIdle
    /\ keys = KeysIdle

SpecFill == Init /\ [][FillPathCall]_vars

SpecDispatch == Init /\ [][Dispatch(CallOptions, BOOLEAN)]_vars

SpecDispatchSeq == Init /\ [][Dispatch(RepeatedCallOptions, {TRUE}) \/ DispatchAgain]_vars

SpecHooks == Init /\ [][HookNext]_vars

SpecCache == Init /\ [][CacheNext]_vars

SpecCacheSeq == Init /\ [][CacheSeqNext]_vars

SpecSetup == Init /\ [][SetupNext]_vars

SpecKey == Init /\ [][ComposableCalls]_vars

SpecUse == Init /\ [][UseOpenFetchCalls]_vars

====
